---- MODULE Spec2Model ----
(***************************************************************************)
(* Content & Progress Engine of PhronesisFlask: the two lesson handlers    *)
(* (app.py lesson_detail, app_perspectives_fix.py lesson), the creator     *)
(* challenge and the peer-review queue, over the tables of models.py.      *)
(*                                                                         *)
(* Every request is served by a worker.  A handler is cut into steps at    *)
(* its database commits, so that requests of different workers interleave  *)
(* the way concurrent requests do.  Timestamps (updated_at, created_at),   *)
(* titles, bodies and comments are left out: no handler branches on them.  *)
(***************************************************************************)
EXTENDS Integers, Sequences, FiniteSets, TLC

\* ------------------------------------------------------------------ bounds
MaxRequests == 2      \* lesson requests served in one behaviour
MaxReviews == 3       \* creator-challenge and peer-review requests served in one behaviour

Workers == {"w1", "w2"}

\* --------------------------------------------------------------- the users
\* seed.py creates two users; their ids are the first two primary keys.
Users == {1, 2}

\* The users who take lessons in a behaviour.  Every query and every insert
\* of the lesson handlers carries the user id, so rows of two learners never
\* meet; one learner keeps the lesson behaviours small.
Learners == {1}

\* ------------------------------------------------------------- the content
\* One perspective with two lessons.  Lesson "a" is the seed lesson shape
\* (three choices, answer_index 1, a choice mini-game) with a second quick
\* check added; lesson "b" has one quick check and a slider mini-game.
Content ==
  << [ slug |-> "p",
       lessons |->
         << [ id |-> "a",
              quick_checks |->
                << [ choices |-> <<"A", "B", "C">>, answer_index |-> 1 ],
                   [ choices |-> <<"A", "B">>, answer_index |-> 0 ] >>,
              minigame |-> [ type |-> "choice", correct_option |-> "X" ] ],
            [ id |-> "b",
              quick_checks |->
                << [ choices |-> <<"A", "B", "C">>, answer_index |-> 1 ] >>,
              minigame |-> [ type |-> "slider" ] ] >> ] >>

NotFound == [ none |-> TRUE ]

\* get_perspective_by_slug / _load_perspective: the document declaring slug
get_perspective_by_slug(slug) ==
  IF \E i \in 1..Len(Content) : Content[i].slug = slug
  THEN Content[CHOOSE i \in 1..Len(Content) :
                 /\ Content[i].slug = slug
                 /\ \A j \in 1..(i - 1) : Content[j].slug # slug]
  ELSE NotFound

\* faulty variant: an unknown lesson id falls back to the first lesson
get_lesson_or_first(perspective, lesson_id) ==
  IF \E i \in 1..Len(perspective.lessons) : perspective.lessons[i].id = lesson_id
  THEN perspective.lessons[CHOOSE i \in 1..Len(perspective.lessons) :
                 /\ perspective.lessons[i].id = lesson_id
                 /\ \A j \in 1..(i - 1) : perspective.lessons[j].id # lesson_id]
  ELSE perspective.lessons[1]

\* the loop "for l in perspective.get('lessons', [])" / _get_lesson
get_lesson(perspective, lesson_id) ==
  IF \E i \in 1..Len(perspective.lessons) : perspective.lessons[i].id = lesson_id
  THEN perspective.lessons[CHOOSE i \in 1..Len(perspective.lessons) :
                 /\ perspective.lessons[i].id = lesson_id
                 /\ \A j \in 1..(i - 1) : perspective.lessons[j].id # lesson_id]
  ELSE NotFound

Slugs == {"p"}
LessonIds == {"a", "b"}

\* ---------------------------------------------------------- form decoding
\* Form values are strings.  NoField stands for a field the form lacks.
NoField == "<absent>"

IntLiterals == { <<"-1", -1>>, <<"0", 0>>, <<"1", 1>>, <<"2", 2>>, <<"3", 3>>,
                 <<"4", 4>>, <<"5", 5>>, <<"6", 6>> }

\* int(request.form.get(name, default)): ValueError on a non-numeric string
FormInt(v, default) ==
  IF v = NoField THEN [ ok |-> TRUE, val |-> default ]
  ELSE IF \E p \in IntLiterals : p[1] = v
       THEN [ ok |-> TRUE, val |-> (CHOOSE p \in IntLiterals : p[1] = v)[2] ]
       ELSE [ ok |-> FALSE, val |-> 0 ]

Max(a, b) == IF a >= b THEN a ELSE b

\* ---------------------------------------------------------------- state
VARIABLES
  progress,    \* table progress: rows [id, user_id, perspective_slug, lesson_id, status, score]
  artifacts,   \* table artifact: rows [id, user_id, perspective_slug]
  reviews,     \* table peer_review: rows [id, artifact_id, reviewer_id, clarity, logic, fairness]
  events,      \* table event, in insertion order: [user_id, type, perspective_slug, lesson_id, meta]
  pc,          \* per worker: the step its request is at
  req,         \* per worker: the request being served
  prog,        \* per worker: the Progress object of its session
  verdict,     \* per worker: values computed by the handler and used by a later step
  resp,        \* per worker: the response of its request
  nreq,        \* lesson requests begun so far
  nrev,        \* creator-challenge and peer-review requests begun so far
  submitted,   \* per (user, slug, lesson): the candidate scores of the quiz submissions graded
  binds_dict   \* whether the database driver binds a dict to a Text column:
               \* "unknown" until the first such insert shows it, then "yes" or "no"

vars == << progress, artifacts, reviews, events, pc, req, prog, verdict, resp,
           nreq, nrev, submitted, binds_dict >>

NoReq == [ handler |-> "none" ]
NoRow == [ id |-> 0 ]
NoVerdict == [ none |-> TRUE ]
NoResp == [ kind |-> "none" ]
NoMeta == [ none |-> TRUE ]

Keys == Learners \X Slugs \X LessonIds

Init ==
  /\ progress = {}
  /\ artifacts = {}
  /\ reviews = {}
  /\ events = << >>
  /\ pc = [ w \in Workers |-> "idle" ]
  /\ req = [ w \in Workers |-> NoReq ]
  /\ prog = [ w \in Workers |-> NoRow ]
  /\ verdict = [ w \in Workers |-> NoVerdict ]
  /\ resp = [ w \in Workers |-> NoResp ]
  /\ nreq = 0
  /\ nrev = 0
  /\ submitted = [ k \in Keys |-> {} ]
  /\ binds_dict = "unknown"

\* ------------------------------------------------------- storage layer
Set(f, w, v) == [ f EXCEPT ![w] = v ]

KeyOf(r) == << r.user_id, r.perspective_slug, r.lesson_id >>

RowsFor(u, slug, lid) ==
  { r \in progress : r.user_id = u /\ r.perspective_slug = slug /\ r.lesson_id = lid }

\* Progress.query.filter_by(user_id, perspective_slug, lesson_id).first()
ProgressFirst(u, slug, lid) ==
  IF RowsFor(u, slug, lid) = {} THEN NoRow
  ELSE CHOOSE r \in RowsFor(u, slug, lid) : \A o \in RowsFor(u, slug, lid) : r.id <= o.id

\* faulty variant: the progress table without its uniqueness constraint
NoProgressConstraint(rows, new) == FALSE

\* db.UniqueConstraint('user_id', 'perspective_slug', 'lesson_id')
ProgressUniqueViolation(rows, new) ==
  \E r \in rows : KeyOf(r) = KeyOf(new)

\* faulty variant: a row created with the default of the status column
NewProgressDefault(u, slug, lid) ==
  [ id |-> Cardinality(progress) + 1, user_id |-> u, perspective_slug |-> slug,
    lesson_id |-> lid, status |-> "not_started", score |-> 0 ]

\* Progress(user_id, perspective_slug, lesson_id, status='started', score=0)
NewProgress(u, slug, lid) ==
  [ id |-> Cardinality(progress) + 1, user_id |-> u, perspective_slug |-> slug,
    lesson_id |-> lid, status |-> "started", score |-> 0 ]

RowById(id) == CHOOSE r \in progress : r.id = id

\* The session's Progress object: a commit or rollback of the session expires
\* it, and the next attribute access reloads the row.
Loaded(row) == [ id |-> row.id, status |-> row.status, score |-> row.score, expired |-> FALSE ]

Expired(id) == [ id |-> id, status |-> "?", score |-> 0, expired |-> TRUE ]

Current(w) == IF prog[w].expired THEN Loaded(RowById(prog[w].id)) ELSE prog[w]

\* The UPDATE a commit issues: the attributes whose value was changed.
WithScore(id, old, new) ==
  IF new = old THEN progress
  ELSE { IF r.id = id THEN [ r EXCEPT !.score = new ] ELSE r : r \in progress }

WithStatus(rows, id, old, new) ==
  IF new = old THEN rows
  ELSE { IF r.id = id THEN [ r EXCEPT !.status = new ] ELSE r : r \in rows }

\* Event(user_id, type, perspective_slug, lesson_id, meta); None is NoField
EventRow(uid, etype, slug, lid, meta) ==
  [ user_id |-> uid, type |-> etype, perspective_slug |-> slug, lesson_id |-> lid,
    meta |-> meta ]

\* faulty variant: an event table that keeps only the latest event
log_event_overwrite(uid, etype, slug, lid, meta) ==
  << EventRow(uid, etype, slug, lid, meta) >>

\* app.py log_event: add the event and commit
log_event(uid, etype, slug, lid, meta) ==
  Append(events, EventRow(uid, etype, slug, lid, meta))

\* ---------------------------------------------------------- responses
Render(template, quiz_result, minigame_result) ==
  [ kind |-> "render", template |-> template, quiz_result |-> quiz_result,
    minigame_result |-> minigame_result ]

Redirect(to, flash) == [ kind |-> "redirect", to |-> to, flash |-> flash ]

\* an exception no handler catches: the request ends as a server error
ServerError(exception) == [ kind |-> "error", exception |-> exception ]

NoFlash == ""
None == [ none |-> TRUE ]

Finish(w, r) ==
  /\ pc' = Set(pc, w, "done")
  /\ resp' = Set(resp, w, r)

\* ------------------------------------------------------------ requests
\* the (slug, lesson id) pairs of the lesson URLs requested: the lessons of
\* the content, an unknown lesson and an unknown perspective
Targets == { <<"p", "a">>, <<"p", "b">>, <<"p", "zz">>, <<"zz", "a">> }
Methods == {"GET", "POST"}
NoForm == [ action |-> NoField ]

Request(handler, u, slug, lid, m) ==
  [ handler |-> handler, user |-> u, slug |-> slug, lesson_id |-> lid, method |-> m,
    form |-> NoForm ]

QuizForms ==
  { [ action |-> "submit_quiz", qidx |-> q, answer |-> a ] :
      q \in {"0", "1"}, a \in {"0", "1", "3", "abc"} }

\* a choice form carries the option picked, a slider form the value
MinigameForms ==
  { [ action |-> "submit_minigame", picked |-> "X", slider_value |-> NoField ],
    [ action |-> "submit_minigame", picked |-> NoField, slider_value |-> "3" ] }

MarkCompleteForm == [ action |-> "mark_complete" ]

Lesson(r) == get_lesson(get_perspective_by_slug(r.slug), r.lesson_id)

ReqKey(r) == << r.user, r.slug, r.lesson_id >>

\* Workers are interchangeable: a request goes to the first idle one.
FirstIdle(w) == \A o \in Workers : pc[o] = "idle" => (w = o \/ w = "w1")

\* ------------------------------------------------ app.py lesson_detail
\* lines 250-273: look the perspective and the lesson up, query the row
LessonDetailBegin(w) ==
  /\ pc[w] = "idle"
  /\ nreq < MaxRequests
  /\ FirstIdle(w)
  /\ \E u \in Learners, t \in Targets, m \in Methods :
       LET slug == t[1]
           lid == t[2]
           perspective == get_perspective_by_slug(slug)
           found == ProgressFirst(u, slug, lid)
       IN /\ req' = Set(req, w, Request("lesson_detail", u, slug, lid, m))
          /\ IF perspective = NotFound
             THEN /\ Finish(w, Redirect("dashboard", "Perspective not found"))
                  /\ UNCHANGED prog
             ELSE IF get_lesson(perspective, lid) = NotFound
             THEN /\ Finish(w, Redirect("perspective_detail", "Lesson not found"))
                  /\ UNCHANGED prog
             ELSE /\ prog' = Set(prog, w, IF found = NoRow THEN NoRow ELSE Loaded(found))
                  /\ pc' = Set(pc, w, IF found = NoRow THEN "ld_insert" ELSE "ld_action")
                  /\ UNCHANGED resp
  /\ nreq' = nreq + 1
  /\ UNCHANGED << progress, artifacts, reviews, events, verdict, nrev, submitted, binds_dict >>

\* lines 275-286: no row was found: insert one and commit
LessonDetailInsert(w) ==
  /\ pc[w] = "ld_insert"
  /\ LET new == NewProgress(req[w].user, req[w].slug, req[w].lesson_id)
     IN IF ProgressUniqueViolation(progress, new)
        THEN /\ Finish(w, ServerError("IntegrityError"))
             /\ UNCHANGED << progress, prog >>
        ELSE /\ progress' = progress \cup {new}
             /\ prog' = Set(prog, w, Expired(new.id))
             /\ pc' = Set(pc, w, "ld_log_started")
             /\ UNCHANGED resp
  /\ UNCHANGED << artifacts, reviews, events, req, verdict, nreq, nrev, submitted, binds_dict >>

\* line 289
LessonDetailLogStarted(w) ==
  /\ pc[w] = "ld_log_started"
  /\ events' = log_event(req[w].user, "lesson_started", req[w].slug, req[w].lesson_id, NoMeta)
  /\ pc' = Set(pc, w, "ld_action")
  /\ UNCHANGED << progress, artifacts, reviews, req, prog, verdict, resp, nreq, nrev, submitted, binds_dict >>

\* lines 291-294, 357-363: a GET, or a POST with no known action
LessonDetailRender(w) ==
  /\ pc[w] = "ld_action"
  /\ \/ /\ req[w].method = "GET"
        /\ UNCHANGED req
     \/ /\ req[w].method = "POST"
        /\ req' = Set(req, w, [ req[w] EXCEPT !.form = [ action |-> NoField ] ])
  /\ Finish(w, Render("lesson.html", None, None))
  /\ UNCHANGED << progress, artifacts, reviews, events, prog, verdict, nreq, nrev, submitted, binds_dict >>

\* line 307: progress.score = max(progress.score, score)
ratchetScore(old, candidate) == Max(old, candidate)

\* lines 297-309: grade against the first quick check, update the score, commit
LessonDetailSubmitQuiz(w) ==
  /\ pc[w] = "ld_action"
  /\ req[w].method = "POST"
  /\ \E f \in QuizForms :
       LET selected == FormInt(f.answer, -1)
           quick_checks == Lesson(req[w]).quick_checks
           correct_answer == quick_checks[1].answer_index
           is_correct == selected.val = correct_answer
           score == IF is_correct THEN 100 ELSE 0
           cur == Current(w)
       IN /\ req' = Set(req, w, [ req[w] EXCEPT !.form = f ])
          /\ IF ~selected.ok
             THEN /\ Finish(w, ServerError("ValueError"))
                  /\ UNCHANGED << progress, prog, verdict, submitted >>
             ELSE IF Len(quick_checks) = 0
             THEN /\ Finish(w, ServerError("IndexError"))
                  /\ UNCHANGED << progress, prog, verdict, submitted >>
             ELSE /\ progress' = WithScore(cur.id, cur.score, ratchetScore(cur.score, score))
                  /\ prog' = Set(prog, w, Expired(cur.id))
                  /\ verdict' = Set(verdict, w,
                        [ is_correct |-> is_correct, score |-> score,
                          selected |-> selected.val, correct_answer |-> correct_answer ])
                  /\ submitted' = [ submitted EXCEPT ![ReqKey(req[w])] = @ \cup {score} ]
                  /\ pc' = Set(pc, w, "ld_log_quiz")
                  /\ UNCHANGED resp
  /\ UNCHANGED << artifacts, reviews, events, nreq, nrev, binds_dict >>

\* lines 311-322
LessonDetailLogQuiz(w) ==
  /\ pc[w] = "ld_log_quiz"
  /\ events' = log_event(req[w].user, "quiz_attempted", req[w].slug, req[w].lesson_id,
                         [ correct |-> verdict[w].is_correct, score |-> verdict[w].score ])
  /\ Finish(w, Render("lesson.html",
                      [ correct |-> verdict[w].is_correct, selected |-> verdict[w].selected,
                        correct_answer |-> verdict[w].correct_answer ],
                      None))
  /\ UNCHANGED << progress, artifacts, reviews, req, prog, verdict, nreq, nrev, submitted, binds_dict >>

\* minigame.get('correct_option'): None when the mini-game has no such field
CorrectOption(minigame) ==
  IF "correct_option" \in DOMAIN minigame THEN minigame.correct_option ELSE NoField

\* faulty variant: a mini-game submission that also scores the row
MinigameThatScores(w) ==
  /\ pc[w] = "ld_action"
  /\ req[w].method = "POST"
  /\ \E f \in MinigameForms :
       LET selected_option == f.picked
           minigame == Lesson(req[w]).minigame
           is_correct == selected_option = CorrectOption(minigame)
       IN /\ req' = Set(req, w, [ req[w] EXCEPT !.form = f ])
          /\ events' = log_event(req[w].user, "minigame_played", req[w].slug,
                                 req[w].lesson_id,
                                 [ game_type |-> minigame.type, correct |-> is_correct,
                                   selected |-> selected_option ])
          /\ Finish(w, Render("lesson.html", None,
                              [ correct |-> is_correct, selected |-> selected_option ]))
  /\ progress' = { IF KeyOf(r) = ReqKey(req[w]) THEN [ r EXCEPT !.score = 100 ] ELSE r :
                     r \in progress }
  /\ UNCHANGED << artifacts, reviews, prog, verdict, nreq, nrev, submitted, binds_dict >>

\* lines 324-343: compare the option, log the event
LessonDetailSubmitMinigame(w) ==
  /\ pc[w] = "ld_action"
  /\ req[w].method = "POST"
  /\ \E f \in MinigameForms :
       LET selected_option == f.picked
           minigame == Lesson(req[w]).minigame
           is_correct == selected_option = CorrectOption(minigame)
       IN /\ req' = Set(req, w, [ req[w] EXCEPT !.form = f ])
          /\ events' = log_event(req[w].user, "minigame_played", req[w].slug,
                                 req[w].lesson_id,
                                 [ game_type |-> minigame.type, correct |-> is_correct,
                                   selected |-> selected_option ])
          /\ Finish(w, Render("lesson.html", None,
                              [ correct |-> is_correct, selected |-> selected_option ]))
  /\ UNCHANGED << progress, artifacts, reviews, prog, verdict, nreq, nrev, submitted, binds_dict >>

\* faulty variant: mark_complete as a toggle
toggleCompleted(status) == IF status = "completed" THEN "started" ELSE "completed"

\* line 347: progress.status = 'completed'
markCompleted(status) == "completed"

\* lines 345-349: set the status, commit
LessonDetailMarkComplete(w) ==
  /\ pc[w] = "ld_action"
  /\ req[w].method = "POST"
  /\ LET cur == Current(w)
     IN /\ progress' = WithStatus(progress, cur.id, cur.status, markCompleted(cur.status))
        /\ prog' = Set(prog, w, Expired(cur.id))
  /\ req' = Set(req, w, [ req[w] EXCEPT !.form = MarkCompleteForm ])
  /\ pc' = Set(pc, w, "ld_log_completed")
  /\ UNCHANGED << artifacts, reviews, events, verdict, resp, nreq, nrev, submitted, binds_dict >>

\* lines 351-355
LessonDetailLogCompleted(w) ==
  /\ pc[w] = "ld_log_completed"
  /\ events' = log_event(req[w].user, "lesson_completed", req[w].slug, req[w].lesson_id, NoMeta)
  /\ Finish(w, Redirect("perspective_detail", "Lesson completed!"))
  /\ UNCHANGED << progress, artifacts, reviews, req, prog, verdict, nreq, nrev, submitted, binds_dict >>

\* the response is sent; the session is removed with the request
Respond(w) ==
  /\ pc[w] = "done"
  /\ pc' = Set(pc, w, "idle")
  /\ req' = Set(req, w, NoReq)
  /\ prog' = Set(prog, w, NoRow)
  /\ verdict' = Set(verdict, w, NoVerdict)
  /\ resp' = Set(resp, w, NoResp)
  /\ UNCHANGED << progress, artifacts, reviews, events, nreq, nrev, submitted, binds_dict >>

\* ------------------------------------- app_perspectives_fix.py lesson
\* _log_event: the Event is built with meta=meta or {}, a dict, for the Text
\* column Event.meta.  Whether the insert goes through is the driver's
\* doing (sqlite3 refuses to bind a dict), the same at every call; a
\* failure is caught, the session rolled back, and the caller goes on.
fix_log_event(uid, etype, slug, lid, meta) ==
  \E b \in (IF binds_dict = "unknown" THEN {"yes", "no"} ELSE {binds_dict}) :
    /\ binds_dict' = b
    /\ events' = IF b = "yes" THEN Append(events, EventRow(uid, etype, slug, lid, meta))
                 ELSE events

\* lines 128-138: look the perspective and the lesson up, query the row
LessonBegin(w) ==
  /\ pc[w] = "idle"
  /\ nreq < MaxRequests
  /\ FirstIdle(w)
  /\ \E u \in Learners, t \in Targets, m \in Methods :
       LET slug == t[1]
           lid == t[2]
           perspective == get_perspective_by_slug(slug)
           found == ProgressFirst(u, slug, lid)
       IN /\ req' = Set(req, w, Request("lesson", u, slug, lid, m))
          /\ IF perspective = NotFound
             THEN /\ Finish(w, Redirect("dashboard", "Perspective not found."))
                  /\ UNCHANGED prog
             ELSE IF get_lesson(perspective, lid) = NotFound
             THEN /\ Finish(w, Redirect("perspective_detail", "Lesson not found."))
                  /\ UNCHANGED prog
             ELSE /\ prog' = Set(prog, w, IF found = NoRow THEN NoRow ELSE Loaded(found))
                  /\ pc' = Set(pc, w, IF found = NoRow THEN "ls_insert" ELSE "ls_action")
                  /\ UNCHANGED resp
  /\ nreq' = nreq + 1
  /\ UNCHANGED << progress, artifacts, reviews, events, verdict, nrev, submitted, binds_dict >>

\* lines 139-142: no row was found: insert one and commit
LessonInsert(w) ==
  /\ pc[w] = "ls_insert"
  /\ LET new == NewProgress(req[w].user, req[w].slug, req[w].lesson_id)
     IN IF ProgressUniqueViolation(progress, new)
        THEN /\ Finish(w, ServerError("IntegrityError"))
             /\ UNCHANGED << progress, prog >>
        ELSE /\ progress' = progress \cup {new}
             /\ prog' = Set(prog, w, Expired(new.id))
             /\ pc' = Set(pc, w, "ls_action")
             /\ UNCHANGED resp
  /\ UNCHANGED << artifacts, reviews, events, req, verdict, nreq, nrev, submitted, binds_dict >>

\* lines 182-187: a GET logs lesson_started and renders the lesson
LessonGet(w) ==
  /\ pc[w] = "ls_action"
  /\ req[w].method = "GET"
  /\ fix_log_event(req[w].user, "lesson_started", req[w].slug, req[w].lesson_id, NoMeta)
  /\ Finish(w, Render("lesson.html", None, None))
  /\ UNCHANGED << progress, artifacts, reviews, req, prog, verdict, nreq, nrev, submitted >>

\* line 153: correct = (choice_idx == int(qc.get("answer_index", -1)))
gradeQuiz(qc, choice_idx) == choice_idx = qc.answer_index

\* lines 146-154, 161-165: parse, grade the quick check qidx, log the attempt
LessonSubmitQuiz(w) ==
  /\ pc[w] = "ls_action"
  /\ req[w].method = "POST"
  /\ \E f \in QuizForms :
       LET qidx == FormInt(f.qidx, 0)
           choice_idx == FormInt(f.answer, -1)
           quick_checks == Lesson(req[w]).quick_checks
           qc == quick_checks[qidx.val + 1]
           correct == gradeQuiz(qc, choice_idx.val)
       IN /\ req' = Set(req, w, [ req[w] EXCEPT !.form = f ])
          /\ IF ~qidx.ok \/ ~choice_idx.ok
             THEN /\ Finish(w, Redirect("lesson", "Could not grade this question."))
                  /\ UNCHANGED << events, prog, verdict, submitted, binds_dict >>
             ELSE IF ~(0 <= qidx.val /\ qidx.val < Len(quick_checks))
             THEN /\ Finish(w, Redirect("lesson", NoFlash))
                  /\ UNCHANGED << events, prog, verdict, submitted, binds_dict >>
             ELSE /\ fix_log_event(req[w].user, "quiz_attempted", req[w].slug,
                                   req[w].lesson_id,
                                   [ qidx |-> qidx.val, correct |-> correct ])
                  /\ prog' = Set(prog, w, Expired(prog[w].id))
                  /\ verdict' = Set(verdict, w,
                        [ qidx |-> qidx.val, choice_idx |-> choice_idx.val,
                          correct |-> correct ])
                  /\ submitted' = [ submitted EXCEPT ![ReqKey(req[w])] =
                                      @ \cup {IF correct THEN 100 ELSE 0} ]
                  /\ IF correct
                     THEN /\ pc' = Set(pc, w, "ls_complete")
                          /\ UNCHANGED resp
                     ELSE Finish(w, Redirect("lesson", "Try again"))
  /\ UNCHANGED << progress, artifacts, reviews, nreq, nrev >>

\* line 156: if correct and (prog.status != "completed")
autoCompletes(status) == status # "completed"

\* lines 156-161: the first correct answer completes the lesson
LessonComplete(w) ==
  /\ pc[w] = "ls_complete"
  /\ LET cur == Current(w)
     IN IF autoCompletes(cur.status)
        THEN /\ progress' = WithStatus(WithScore(cur.id, cur.score, Max(cur.score, 100)),
                                       cur.id, cur.status, "completed")
             /\ prog' = Set(prog, w, Expired(cur.id))
        ELSE UNCHANGED << progress, prog >>
  /\ Finish(w, Redirect("lesson", "Correct!"))
  /\ UNCHANGED << artifacts, reviews, events, req, verdict, nreq, nrev, submitted, binds_dict >>

\* lines 167-178: a choice mini-game is compared, a slider value only logged
LessonSubmitMinigame(w) ==
  /\ pc[w] = "ls_action"
  /\ req[w].method = "POST"
  /\ \E f \in MinigameForms :
       LET mg == Lesson(req[w]).minigame
           correct == f.picked = CorrectOption(mg)
       IN /\ req' = Set(req, w, [ req[w] EXCEPT !.form = f ])
          /\ IF mg.type = "choice"
             THEN /\ fix_log_event(req[w].user, "minigame_played", req[w].slug,
                                   req[w].lesson_id,
                                   [ game |-> "choice", picked |-> f.picked,
                                     correct |-> correct ])
                  /\ Finish(w, Redirect("lesson",
                                 IF correct THEN "Mini-game: nice!" ELSE "Mini-game: close"))
             ELSE IF mg.type = "slider"
             THEN /\ fix_log_event(req[w].user, "minigame_played", req[w].slug,
                                   req[w].lesson_id,
                                   [ game |-> "slider", value |-> f.slider_value ])
                  /\ Finish(w, Redirect("lesson", "Thanks for your rating."))
             ELSE /\ Finish(w, Redirect("lesson", NoFlash))
                  /\ UNCHANGED << events, binds_dict >>
  /\ UNCHANGED << progress, artifacts, reviews, prog, verdict, nreq, nrev, submitted >>

\* line 180: a POST with no known action is redirected to the lesson
LessonRedirect(w) ==
  /\ pc[w] = "ls_action"
  /\ req[w].method = "POST"
  /\ req' = Set(req, w, [ req[w] EXCEPT !.form = [ action |-> NoField ] ])
  /\ Finish(w, Redirect("lesson", NoFlash))
  /\ UNCHANGED << progress, artifacts, reviews, events, prog, verdict, nreq, nrev, submitted, binds_dict >>

\* ---------------------------------------------- app.py creator_challenge
CreatorForms == { [ title |-> t, body_text |-> "text" ] : t \in {"", "title"} }

\* Artifact(user_id, perspective_slug, title, body_text)
NewArtifact(u, slug) ==
  [ id |-> Cardinality(artifacts) + 1, user_id |-> u, perspective_slug |-> slug ]

\* lines 368-393, 401: look the perspective up; a POST with a title and a
\* body inserts the artifact and commits
CreatorChallenge(w) ==
  /\ pc[w] = "idle"
  /\ nrev < MaxReviews
  /\ FirstIdle(w)
  /\ \E u \in Users, slug \in Slugs \cup {"zz"}, m \in Methods, f \in CreatorForms :
       /\ req' = Set(req, w, [ handler |-> "creator_challenge", user |-> u, slug |-> slug,
                               method |-> m,
                               form |-> IF m = "POST" THEN f ELSE NoForm ])
       /\ IF get_perspective_by_slug(slug) = NotFound
          THEN /\ Finish(w, Redirect("dashboard", "Perspective not found"))
               /\ UNCHANGED artifacts
          ELSE IF m = "GET"
          THEN /\ Finish(w, Render("creator.html", None, None))
               /\ UNCHANGED artifacts
          ELSE IF f.title = "" \/ f.body_text = ""
          THEN /\ Finish(w, [ kind |-> "render", template |-> "creator.html",
                              flash |-> "Both title and content are required" ])
               /\ UNCHANGED artifacts
          ELSE /\ artifacts' = artifacts \cup {NewArtifact(u, slug)}
               /\ pc' = Set(pc, w, "cc_log")
               /\ UNCHANGED resp
  /\ nrev' = nrev + 1
  /\ UNCHANGED << progress, reviews, events, prog, verdict, nreq, submitted, binds_dict >>

\* lines 395-399
CreatorChallengeLog(w) ==
  /\ pc[w] = "cc_log"
  /\ events' = log_event(req[w].user, "artifact_submitted", req[w].slug, NoField, NoMeta)
  /\ Finish(w, Redirect("perspective_detail", "Artifact submitted successfully!"))
  /\ UNCHANGED << progress, artifacts, reviews, req, prog, verdict, nreq, nrev, submitted, binds_dict >>

\* --------------------------------------------- app.py peer_review_queue
\* the ratings of the review forms submitted: in range, below and above the
\* 1-5 scale, a missing field and a field that is no number
RatingForms ==
  { <<"3", "4", "5">>, <<"0", "6", NoField>>, <<"3", "4", "abc">> }

\* The artifact ids of the forms submitted: the rows of the artifact table,
\* or no artifact_id field.  (An id of no artifact is left out: whether the
\* foreign key refuses it depends on the database.)
ArtifactIds == { a.id : a \in artifacts }

ArtifactIdFields == {NoField} \cup { p[1] : p \in { q \in IntLiterals : q[2] \in ArtifactIds } }

QueueRequest(u, action, artifact_id, ratings) ==
  [ handler |-> "peer_review_queue", user |-> u, method |-> IF action = NoField THEN "GET" ELSE "POST",
    form |-> [ action |-> action, artifact_id |-> artifact_id, clarity |-> ratings[1],
               logic |-> ratings[2], fairness |-> ratings[3] ] ]

\* db.UniqueConstraint('artifact_id', 'reviewer_id')
ReviewUniqueViolation(rows, new) ==
  \E r \in rows : r.artifact_id = new.artifact_id /\ r.reviewer_id = new.reviewer_id

\* lines 414-416: clarity = int(request.form.get('clarity', 1)), and so on
Rating(v) == FormInt(v, 1)

\* lines 412-430: parse the ratings, insert the review, commit
PeerReviewSubmit(w) ==
  /\ pc[w] = "idle"
  /\ nrev < MaxReviews
  /\ FirstIdle(w)
  /\ \E u \in Users, aid \in ArtifactIdFields, ratings \in RatingForms :
       LET clarity == Rating(ratings[1])
           logic == Rating(ratings[2])
           fairness == Rating(ratings[3])
           new == [ id |-> Cardinality(reviews) + 1,
                    artifact_id |-> FormInt(aid, 0).val, reviewer_id |-> u,
                    clarity |-> clarity.val, logic |-> logic.val, fairness |-> fairness.val ]
       IN /\ req' = Set(req, w, QueueRequest(u, "submit_review", aid, ratings))
          /\ IF ~clarity.ok \/ ~logic.ok \/ ~fairness.ok
             THEN /\ Finish(w, ServerError("ValueError"))
                  /\ UNCHANGED reviews
             ELSE IF aid = NoField \/ ReviewUniqueViolation(reviews, new)
             THEN /\ Finish(w, ServerError("IntegrityError"))
                  /\ UNCHANGED reviews
             ELSE /\ reviews' = reviews \cup {new}
                  /\ pc' = Set(pc, w, "pr_log")
                  /\ UNCHANGED resp
  /\ nrev' = nrev + 1
  /\ UNCHANGED << progress, artifacts, events, prog, verdict, nreq, submitted, binds_dict >>

\* lines 432-436
PeerReviewLog(w) ==
  /\ pc[w] = "pr_log"
  /\ events' = log_event(req[w].user, "peer_review_completed", NoField, NoField, NoMeta)
  /\ Finish(w, Redirect("peer_review_queue", "Review submitted successfully!"))
  /\ UNCHANGED << progress, artifacts, reviews, req, prog, verdict, nreq, nrev, submitted, binds_dict >>

\* lines 438-442: a report is only logged
PeerReviewReport(w) ==
  /\ pc[w] = "idle"
  /\ nrev < MaxReviews
  /\ FirstIdle(w)
  /\ \E u \in Users, aid \in ArtifactIdFields :
       /\ req' = Set(req, w, QueueRequest(u, "report", aid, <<NoField, NoField, NoField>>))
       /\ events' = log_event(u, "artifact_reported", NoField, NoField, [ artifact_id |-> aid ])
  /\ Finish(w, Redirect("peer_review_queue", "Artifact reported."))
  /\ nrev' = nrev + 1
  /\ UNCHANGED << progress, artifacts, reviews, prog, verdict, nreq, submitted, binds_dict >>

\* faulty variant: the queue query without the filter on the author
nextArtifactOfAnyone(u) ==
  { a \in artifacts :
      a.id \notin { r.artifact_id : r \in { x \in reviews : x.reviewer_id = u } } }

\* faulty variant: the queue query without the filter on the reviews
nextArtifactIgnoringReviews(u) ==
  { a \in artifacts : a.user_id # u }

\* faulty variant: the queue query also leaving out what the reviewer reported
nextArtifactUnreported(u) ==
  { a \in artifacts :
      /\ a.user_id # u
      /\ a.id \notin { r.artifact_id : r \in { x \in reviews : x.reviewer_id = u } }
      /\ ~ \E i \in 1..Len(events) :
             /\ events[i].type = "artifact_reported"
             /\ events[i].user_id = u
             /\ FormInt(events[i].meta.artifact_id, 0).val = a.id }

\* lines 445-450: the artifacts of other users the reviewer has no review of
nextArtifactFor(u) ==
  { a \in artifacts :
      /\ a.user_id # u
      /\ a.id \notin { r.artifact_id : r \in { x \in reviews : x.reviewer_id = u } } }

\* lines 444-452: .first() of a query with no ORDER BY: any row of it
PeerReviewNext(w) ==
  /\ pc[w] = "idle"
  /\ nrev < MaxReviews
  /\ FirstIdle(w)
  /\ \E u \in Users :
       /\ req' = Set(req, w, QueueRequest(u, NoField, NoField, <<NoField, NoField, NoField>>))
       /\ IF nextArtifactFor(u) = {}
          THEN Finish(w, [ kind |-> "render", template |-> "peer_review.html", artifact |-> None ])
          ELSE \E a \in nextArtifactFor(u) :
                 Finish(w, [ kind |-> "render", template |-> "peer_review.html", artifact |-> a ])
  /\ nrev' = nrev + 1
  /\ UNCHANGED << progress, artifacts, reviews, events, prog, verdict, nreq, submitted, binds_dict >>

\* ------------------------------------------------------ specifications
LessonDetail(w) ==
  \/ LessonDetailBegin(w)
  \/ LessonDetailInsert(w)
  \/ LessonDetailLogStarted(w)
  \/ LessonDetailRender(w)
  \/ LessonDetailSubmitQuiz(w)
  \/ LessonDetailLogQuiz(w)
  \/ LessonDetailSubmitMinigame(w)
  \/ LessonDetailMarkComplete(w)
  \/ LessonDetailLogCompleted(w)

LessonFix(w) ==
  \/ LessonBegin(w)
  \/ LessonInsert(w)
  \/ LessonGet(w)
  \/ LessonSubmitQuiz(w)
  \/ LessonComplete(w)
  \/ LessonSubmitMinigame(w)
  \/ LessonRedirect(w)

NextLesson == \E w \in Workers : LessonDetail(w) \/ LessonFix(w) \/ Respond(w)

SpecLesson == Init /\ [][NextLesson]_vars

PeerReview(w) ==
  \/ CreatorChallenge(w)
  \/ CreatorChallengeLog(w)
  \/ PeerReviewSubmit(w)
  \/ PeerReviewLog(w)
  \/ PeerReviewReport(w)
  \/ PeerReviewNext(w)

NextReview == \E w \in Workers : PeerReview(w) \/ Respond(w)

SpecReview == Init /\ [][NextReview]_vars

Next == NextLesson \/ NextReview

Spec == Init /\ [][Next]_vars

\* ------------------------------------------- failures of event recording
\* app.py log_event, lines 113-114: db.session.add(event) and
\* db.session.commit() with no try around them, here or in lesson_detail.
\* When the database refuses the insert or the commit (it is locked, or
\* gone), the exception leaves the handler: the request ends as a server
\* error, after the commit of the mutation the event was about.
LogEventFails(w) ==
  /\ pc[w] \in {"ld_log_started", "ld_log_quiz", "ld_log_completed"}
  /\ Finish(w, ServerError("OperationalError"))
  /\ UNCHANGED << progress, artifacts, reviews, events, req, prog, verdict, nreq, nrev,
                  submitted, binds_dict >>

NextLessonFaulty == NextLesson \/ \E w \in Workers : LogEventFails(w)

\* the lesson handlers over a database that may fail while an event is recorded
SpecLessonFaulty == Init /\ [][NextLessonFaulty]_vars

\* ----------------------------------------------------- the dashboards
MaxLessons == 3       \* lessons a perspective declares, and lessons with a Progress row

Min(a, b) == IF a <= b THEN a ELSE b

LessonNames == << "a", "b", "c", "d", "e" >>

\* The perspective document as a dashboard request finds it on disk: "p"
\* with the first n lessons.  The content files are edited outside the
\* program, so a request may find fewer lessons than have Progress rows.
PerspectiveWith(n) ==
  [ slug |-> "p", lessons |-> [ i \in 1..n |-> [ id |-> LessonNames[i] ] ] ]

\* The progress table of a learner who has opened (and maybe completed,
\* by mark_complete) some of the lessons the perspective declared so far.
ProgressOf(f) ==
  { [ id |-> i, user_id |-> 1, perspective_slug |-> "p", lesson_id |-> LessonNames[i],
      status |-> f[i], score |-> 0 ] : i \in { j \in DOMAIN f : f[j] # "none" } }

InitPercent ==
  /\ \E f \in [ 1..MaxLessons -> {"none", "started", "completed"} ] :
       progress = ProgressOf(f)
  /\ artifacts = {}
  /\ reviews = {}
  /\ events = << >>
  /\ pc = [ w \in Workers |-> "idle" ]
  /\ req = [ w \in Workers |-> NoReq ]
  /\ prog = [ w \in Workers |-> NoRow ]
  /\ verdict = [ w \in Workers |-> NoVerdict ]
  /\ resp = [ w \in Workers |-> NoResp ]
  /\ nreq = 0
  /\ nrev = 0
  /\ submitted = [ k \in Keys |-> {} ]
  /\ binds_dict = "unknown"

\* Progress.query.filter_by(user_id, perspective_slug, status='completed').count()
CompletedCount(user_id, perspective_slug) ==
  Cardinality({ r \in progress : /\ r.user_id = user_id
                                 /\ r.perspective_slug = perspective_slug
                                 /\ r.status = "completed" })

\* app.py calculate_perspective_progress: int((completed / total) * 100).
\* int() truncates; for the counts of this model the float product
\* truncates to the integer quotient of 100 * completed by total.
calculate_perspective_progress(user_id, perspective) ==
  IF Len(perspective.lessons) = 0 THEN 0
  ELSE (CompletedCount(user_id, perspective.slug) * 100) \div Len(perspective.lessons)

\* Python's round(num / den) for num >= 0, den > 0: to the nearest integer,
\* a tie to the even one
round(num, den) ==
  LET q == num \div den
      r == num % den
  IN IF 2 * r < den THEN q
     ELSE IF 2 * r > den THEN q + 1
     ELSE IF q % 2 = 0 THEN q ELSE q + 1

\* app_perspectives_fix.py _compute_progress
compute_progress(user_id, perspective_slug, total_lessons) ==
  IF total_lessons <= 0 THEN 0
  ELSE round(100 * Min(CompletedCount(user_id, perspective_slug), total_lessons),
             total_lessons)

DashboardRequest(handler, u, perspective) ==
  [ handler |-> handler, user |-> u, method |-> "GET", perspective |-> perspective ]

DashboardPage(percent) ==
  [ kind |-> "render", template |-> "dashboard.html", progress |-> percent ]

\* app.py dashboard, lines 202-222
Dashboard(w) ==
  /\ pc[w] = "idle"
  /\ FirstIdle(w)
  /\ \E u \in Learners, n \in 0..MaxLessons :
       /\ req' = Set(req, w, DashboardRequest("dashboard", u, PerspectiveWith(n)))
       /\ Finish(w, DashboardPage(calculate_perspective_progress(u, PerspectiveWith(n))))
  /\ UNCHANGED << progress, artifacts, reviews, events, prog, verdict, nreq, nrev,
                  submitted, binds_dict >>

\* app_perspectives_fix.py dashboard, lines 87-106
FixDashboard(w) ==
  /\ pc[w] = "idle"
  /\ FirstIdle(w)
  /\ \E u \in Learners, n \in 0..MaxLessons :
       LET p == PerspectiveWith(n)
           total == Len(p.lessons)
       IN /\ req' = Set(req, w, DashboardRequest("perspectives_bp.dashboard", u, p))
          /\ Finish(w, DashboardPage(compute_progress(u, p.slug, total)))
  /\ UNCHANGED << progress, artifacts, reviews, events, prog, verdict, nreq, nrev,
                  submitted, binds_dict >>

NextPercent == \E w \in Workers : Dashboard(w) \/ FixDashboard(w) \/ Respond(w)

SpecPercent == InitPercent /\ [][NextPercent]_vars

\* ------------------------------------------------- the content directory
\* The files content/perspectives/<name>.json as a request finds them.  A
\* file holds a JSON object (with its declared slug and its order: "1"
\* stands for a number, "first" for a string), text that is no JSON, or a
\* JSON array.  Titles and lessons are left out.
FileNames == {"p", "q"}

NoFile == [ kind |-> "none", slug |-> NoField, order |-> NoField ]

Documents ==
  { [ kind |-> "object", slug |-> s, order |-> o ] :
      s \in FileNames, o \in {"1", "first"} }
  \cup { [ kind |-> k, slug |-> NoField, order |-> NoField ] : k \in {"unparsable", "array"} }

\* the directories in which no two documents declare the same slug
Directories ==
  { d \in [ FileNames -> Documents \cup {NoFile} ] :
      \A n \in FileNames : \A m \in FileNames \ {n} :
        d[n].kind = "object" => d[m].slug # d[n].slug }

FilesOf(d) == { n \in FileNames : d[n].kind # "none" }

\* the files json.load reads without an exception
Parsed(d) == { n \in FilesOf(d) : d[n].kind # "unparsable" }

IsNumber(order) == \E l \in IntLiterals : l[1] = order

Raises(exception) == [ ok |-> FALSE, exception |-> exception, items |-> {} ]

Returns(items) == [ ok |-> TRUE, exception |-> NoField, items |-> items ]

\* a loaded perspective: the dict of the document `file`
Perspective(file, slug, order) == [ file |-> file, slug |-> slug, order |-> order ]

\* app.py load_perspectives, lines 46-65: every file that json.load reads
\* is appended, whatever its value; the sort after the loop calls
\* x.get('order', 999) on each item (AttributeError on an array) and
\* compares the orders (TypeError between a number and a string).  The
\* result is kept as a set: no two items of it declare one slug.
load_perspectives(d) ==
  IF \E n \in Parsed(d) : d[n].kind = "array" THEN Raises("AttributeError")
  ELSE IF \E n \in Parsed(d) : \E m \in Parsed(d) :
            IsNumber(d[n].order) # IsNumber(d[m].order)
  THEN Raises("TypeError")
  ELSE Returns({ Perspective(n, d[n].slug, d[n].order) : n \in Parsed(d) })

\* app.py get_perspective_by_slug, lines 67-73, over the directory d
get_perspective_in(d, slug) ==
  LET perspectives == load_perspectives(d)
      found == { x \in perspectives.items : x.slug = slug }
  IN IF ~perspectives.ok THEN perspectives
     ELSE Returns(found)

\* app_perspectives_fix.py _load_all_perspectives, lines 18-42: a file that
\* does not parse, or whose value has no setdefault, is skipped; an order
\* that int() refuses becomes 9999
load_all_perspectives(d) ==
  Returns({ Perspective(n, d[n].slug, IF IsNumber(d[n].order) THEN d[n].order ELSE "9999") :
              n \in { f \in Parsed(d) : d[f].kind = "object" } })

\* app_perspectives_fix.py _load_perspective, lines 44-53: the file named
\* after the slug when there is one, whatever it declares; else a scan
load_perspective(d, slug) ==
  IF slug \in FilesOf(d)
  THEN IF d[slug].kind = "unparsable" THEN Raises("JSONDecodeError")
       ELSE Returns({ Perspective(slug, d[slug].slug, d[slug].order) })
  ELSE Returns({ x \in load_all_perspectives(d).items : x.slug = slug })

ContentRequest(handler, u, d, slug) ==
  [ handler |-> handler, user |-> u, method |-> "GET", dir |-> d, slug |-> slug ]

\* the page of a list of perspectives or of one perspective, the redirect
\* of a slug that was not found, or the error of a load that raised
ContentPage(template, result) ==
  IF ~result.ok THEN ServerError(result.exception)
  ELSE [ kind |-> "render", template |-> template, perspectives |-> result.items ]

DetailPage(to, result) ==
  IF result.ok /\ result.items = {} THEN Redirect(to, "Perspective not found")
  ELSE ContentPage("perspective.html", result)

\* app.py dashboard, lines 205-206
DashboardCatalog(w) ==
  /\ pc[w] = "idle"
  /\ FirstIdle(w)
  /\ \E u \in Learners, d \in Directories :
       /\ req' = Set(req, w, ContentRequest("dashboard", u, d, NoField))
       /\ Finish(w, ContentPage("dashboard.html", load_perspectives(d)))
  /\ UNCHANGED << progress, artifacts, reviews, events, prog, verdict, nreq, nrev,
                  submitted, binds_dict >>

\* app_perspectives_fix.py dashboard, lines 90-91
FixDashboardCatalog(w) ==
  /\ pc[w] = "idle"
  /\ FirstIdle(w)
  /\ \E u \in Learners, d \in Directories :
       /\ req' = Set(req, w, ContentRequest("perspectives_bp.dashboard", u, d, NoField))
       /\ Finish(w, ContentPage("dashboard.html", load_all_perspectives(d)))
  /\ UNCHANGED << progress, artifacts, reviews, events, prog, verdict, nreq, nrev,
                  submitted, binds_dict >>

\* app.py perspective_detail, lines 226-232
PerspectiveDetail(w) ==
  /\ pc[w] = "idle"
  /\ FirstIdle(w)
  /\ \E u \in Learners, d \in Directories, slug \in FileNames \cup {"zz"} :
       /\ req' = Set(req, w, ContentRequest("perspective_detail", u, d, slug))
       /\ Finish(w, DetailPage("dashboard", get_perspective_in(d, slug)))
  /\ UNCHANGED << progress, artifacts, reviews, events, prog, verdict, nreq, nrev,
                  submitted, binds_dict >>

\* app_perspectives_fix.py perspective_detail, lines 110-114
FixPerspectiveDetail(w) ==
  /\ pc[w] = "idle"
  /\ FirstIdle(w)
  /\ \E u \in Learners, d \in Directories, slug \in FileNames \cup {"zz"} :
       /\ req' = Set(req, w, ContentRequest("perspectives_bp.perspective_detail", u, d, slug))
       /\ Finish(w, DetailPage("perspectives_bp.dashboard", load_perspective(d, slug)))
  /\ UNCHANGED << progress, artifacts, reviews, events, prog, verdict, nreq, nrev,
                  submitted, binds_dict >>

NextContent ==
  \E w \in Workers :
    \/ DashboardCatalog(w)
    \/ FixDashboardCatalog(w)
    \/ PerspectiveDetail(w)
    \/ FixPerspectiveDetail(w)
    \/ Respond(w)

SpecContent == Init /\ [][NextContent]_vars

\* ------------------------------------------------------------- properties
Quiescent == \A w \in Workers : pc[w] = "idle"

LessonHandlers == {"lesson_detail", "lesson"}

EventsOf(etype, k) ==
  { i \in 1..Len(events) :
      /\ events[i].type = etype
      /\ << events[i].user_id, events[i].perspective_slug, events[i].lesson_id >> = k }

SetMax(S) == CHOOSE x \in S : \A y \in S : y <= x

\* a request whose handler has returned after reading the form of `action`
Answered(w, handlers, action) ==
  /\ pc[w] = "done"
  /\ req[w].handler \in handlers
  /\ req[w].form.action = action

\* C1: the progress table never holds two rows for one
\* (user_id, perspective_slug, lesson_id), whatever the interleaving of the
\* lesson requests of the two handlers.
C1_OneRowPerTriple ==
  \A r1 \in progress : \A r2 \in progress : KeyOf(r1) = KeyOf(r2) => r1 = r2

\* C1 witness: two first visits to one lesson raced, one through each
\* handler; the row is there and the insert of the loser was refused.
C1_RaceWitness ==
  \E w \in Workers : \E o \in Workers \ {w} :
    /\ pc[w] = "done"
    /\ req[w].handler \in LessonHandlers
    /\ resp[w] = ServerError("IntegrityError")
    /\ req[o].handler \in LessonHandlers \ {req[w].handler}
    /\ ReqKey(req[o]) = ReqKey(req[w])
    /\ RowsFor(req[w].user, req[w].slug, req[w].lesson_id) # {}

\* C2: a submit_review for an (artifact, reviewer) pair that has a review
\* leaves one row for the pair, and its caller is answered with an
\* "already reviewed" outcome, not with an unhandled exception.
C2_AlreadyReviewed ==
  /\ \A r1 \in reviews : \A r2 \in reviews :
       (r1.artifact_id = r2.artifact_id /\ r1.reviewer_id = r2.reviewer_id) => r1 = r2
  /\ \A w \in Workers :
       ( /\ Answered(w, {"peer_review_queue"}, "submit_review")
         /\ Rating(req[w].form.clarity).ok
         /\ Rating(req[w].form.logic).ok
         /\ Rating(req[w].form.fairness).ok
         /\ req[w].form.artifact_id # NoField
         /\ resp[w] # Redirect("peer_review_queue", "Review submitted successfully!") )
       => resp[w].kind # "error"

Rank(status) ==
  CASE status = "not_started" -> 0
    [] status = "started" -> 1
    [] status = "completed" -> 2

\* C3: no step of either lesson handler moves the status of a row backwards
\* in the order not_started, started, completed (and no row disappears).
C3_StatusMonotonic ==
  [][ \A r \in progress :
        \E n \in progress' : n.id = r.id /\ Rank(n.status) >= Rank(r.status) ]_vars

\* C3 witness: a lesson was completed and a quiz submission on it was
\* recorded afterwards.
C3_LaterOperationWitness ==
  \E k \in Keys :
    /\ \E r \in progress : KeyOf(r) = k /\ r.status = "completed"
    /\ \E i \in EventsOf("lesson_completed", k) :
         \E j \in EventsOf("quiz_attempted", k) : i < j

\* C4: once no request is in flight, the score of a row is the maximum of 0
\* and the candidate scores of the quiz submissions graded on it.
C4_ScoreIsMaxSubmitted ==
  Quiescent =>
    \A r \in progress : r.score = SetMax(submitted[KeyOf(r)] \cup {0})

\* C5: lesson_started is recorded at most once per (user, perspective,
\* lesson), and exactly once when the row exists and no request is in flight.
C5_StartedExactlyOnce ==
  \A k \in Keys :
    /\ Cardinality(EventsOf("lesson_started", k)) <= 1
    /\ (Quiescent /\ RowsFor(k[1], k[2], k[3]) # {})
         => Cardinality(EventsOf("lesson_started", k)) = 1

\* C6: the artifact the queue hands to a reviewer is never one the reviewer
\* wrote and never one the reviewer has a review of.
C6_NextArtifactEligible ==
  [][ \A w \in Workers :
        ( /\ pc[w] = "idle"
          /\ pc'[w] = "done"
          /\ req'[w].handler = "peer_review_queue"
          /\ req'[w].method = "GET"
          /\ resp'[w].artifact # None )
        => /\ resp'[w].artifact.user_id # req'[w].user
           /\ ~ \E r \in reviews : /\ r.reviewer_id = req'[w].user
                                   /\ r.artifact_id = resp'[w].artifact.id ]_vars

\* C6 witness: the queue handed an artifact to a reviewer who has an
\* artifact of their own, or a review, in the tables.
C6_QueueWitness ==
  \E w \in Workers :
    /\ pc[w] = "done"
    /\ req[w].handler = "peer_review_queue"
    /\ req[w].method = "GET"
    /\ resp[w].artifact # None
    /\ \/ \E a \in artifacts : a.user_id = req[w].user
       \/ \E r \in reviews : r.reviewer_id = req[w].user

\* C7: no stored review is by the author of the artifact it reviews.
C7_NoSelfReview ==
  \A r \in reviews : \A a \in artifacts :
    a.id = r.artifact_id => a.user_id # r.reviewer_id

\* C8: every stored review has its three ratings in 1..5 (a submission with
\* a rating outside the scale stores nothing).
C8_RatingsInScale ==
  \A r \in reviews : r.clarity \in 1..5 /\ r.logic \in 1..5 /\ r.fairness \in 1..5

\* the verdict a quiz submission was answered with: lesson_detail renders
\* quiz_result, lesson flashes "Correct!" or "Try again"
ReportedCorrect(w) ==
  IF req[w].handler = "lesson_detail"
  THEN resp[w].kind = "render" /\ resp[w].quiz_result.correct
  ELSE resp[w] = Redirect("lesson", "Correct!")

ReportedIncorrect(w) ==
  IF req[w].handler = "lesson_detail"
  THEN resp[w].kind = "render" /\ ~resp[w].quiz_result.correct
  ELSE resp[w] = Redirect("lesson", "Try again")

QuickChecks(w) == Lesson(req[w]).quick_checks

ValidQidx(w) ==
  /\ FormInt(req[w].form.qidx, 0).ok
  /\ FormInt(req[w].form.qidx, 0).val \in 0..(Len(QuickChecks(w)) - 1)

SubmittedQuickCheck(w) == QuickChecks(w)[FormInt(req[w].form.qidx, 0).val + 1]

ValidChoice(w) ==
  /\ FormInt(req[w].form.answer, -1).ok
  /\ FormInt(req[w].form.answer, -1).val \in 0..(Len(SubmittedQuickCheck(w).choices) - 1)

\* C9: a quiz submission for quick check qidx with a valid choice is
\* answered "correct" when the choice is that quick check's answer_index and
\* "incorrect" otherwise, by both handlers.
C9_GradedAgainstAnswerKey ==
  \A w \in Workers :
    (Answered(w, LessonHandlers, "submit_quiz") /\ ValidQidx(w) /\ ValidChoice(w))
    => IF FormInt(req[w].form.answer, -1).val = SubmittedQuickCheck(w).answer_index
       THEN ReportedCorrect(w)
       ELSE ReportedIncorrect(w)

\* C10: a quiz submission whose quick-check index or choice index is out of
\* range is answered with a grading failure, neither graded nor ignored.
C10_OutOfRangeFails ==
  \A w \in Workers :
    ( /\ Answered(w, LessonHandlers, "submit_quiz")
      /\ FormInt(req[w].form.qidx, 0).ok
      /\ FormInt(req[w].form.answer, -1).ok
      /\ ~(ValidQidx(w) /\ ValidChoice(w)) )
    => \/ resp[w].kind = "error"
       \/ resp[w] = Redirect("lesson", "Could not grade this question.")

\* the row a lesson request works on
RowOf(w) == CHOOSE r \in progress : KeyOf(r) = ReqKey(req[w])

\* C11: once a quiz submission has been answered "correct", the score of the
\* row is at least 100, whatever the status and the score of the row were
\* when it was submitted.
C11_CorrectQuizScores100 ==
  \A w \in Workers :
    (Answered(w, LessonHandlers, "submit_quiz") /\ ReportedCorrect(w))
    => RowOf(w).score >= 100

\* C12: the status of a row becomes completed only in a step of the
\* mark_complete action; no step of a quiz submission changes a status.
C12_CompletedOnlyByMarkComplete ==
  [][ \A r \in progress : \A n \in progress' :
        (n.id = r.id /\ n.status # r.status)
        => \E w \in Workers : /\ pc[w] = "ld_action"
                              /\ pc'[w] = "ld_log_completed" ]_vars

Dashboards == {"dashboard", "perspectives_bp.dashboard"}

\* the lessons of the perspective a dashboard request read
DeclaredLessons(w) ==
  { req[w].perspective.lessons[i].id : i \in 1..Len(req[w].perspective.lessons) }

\* the lessons of that perspective the user has completed
CompletedOf(w) ==
  { r \in progress : /\ r.user_id = req[w].user
                     /\ r.perspective_slug = req[w].perspective.slug
                     /\ r.status = "completed"
                     /\ r.lesson_id \in DeclaredLessons(w) }

NoDrift(w) ==
  CompletedCount(req[w].user, req[w].perspective.slug) = Cardinality(CompletedOf(w))

\* C13: for a perspective of N lessons of which the user has completed k,
\* both dashboards show round(100 * k / N), and 0 when N = 0.
C13_PercentIsRounded ==
  \A w \in Workers :
    (pc[w] = "done" /\ req[w].handler \in Dashboards /\ NoDrift(w))
    => LET N == Cardinality(DeclaredLessons(w))
           k == Cardinality(CompletedOf(w))
       IN resp[w].progress = IF N = 0 THEN 0 ELSE round(100 * k, N)

\* C14: the percentage a dashboard shows lies in 0..100, also when the
\* perspective declares fewer lessons than the user has completed rows.
C14_PercentInRange ==
  \A w \in Workers :
    (pc[w] = "done" /\ req[w].handler \in Dashboards) => resp[w].progress \in 0..100

\* the quiz_attempted events of a key whose payload carries the question
\* index and the correct flag
QuizEventsWithPayload(k) ==
  { i \in EventsOf("quiz_attempted", k) :
      {"qidx", "correct"} \subseteq DOMAIN events[i].meta }

\* C15: every quiz submission that has been answered, graded or failed, has
\* left a quiz_attempted event carrying the question index and the correct
\* flag.
C15_QuizAttemptedLogged ==
  \A w \in Workers :
    Answered(w, LessonHandlers, "submit_quiz")
    => QuizEventsWithPayload(ReqKey(req[w])) # {}

Minigame(w) == Lesson(req[w]).minigame

\* the verdict a mini-game submission was answered with: lesson_detail
\* renders minigame_result, lesson flashes a message
MinigameReportedCorrect(w) ==
  IF req[w].handler = "lesson_detail"
  THEN resp[w].minigame_result.correct
  ELSE resp[w].flash = "Mini-game: nice!"

MinigameUnjudged(w) ==
  /\ IF req[w].handler = "lesson_detail"
     THEN "correct" \notin DOMAIN resp[w].minigame_result
     ELSE resp[w].flash = "Thanks for your rating."
  /\ \A i \in EventsOf("minigame_played", ReqKey(req[w])) :
       "correct" \notin DOMAIN events[i].meta

\* C16: a submission to a choice mini-game is answered "correct" exactly
\* when the option submitted is correct_option; a submission to a slider
\* mini-game gets no verdict, neither in the answer nor in its
\* minigame_played event.
C16_MinigameVerdict ==
  \A w \in Workers :
    Answered(w, LessonHandlers, "submit_minigame")
    => IF Minigame(w).type = "choice"
       THEN MinigameReportedCorrect(w) <=> (req[w].form.picked = Minigame(w).correct_option)
       ELSE MinigameUnjudged(w)

\* C17: a request whose mutation was committed is not failed by the
\* recording of its event: no lesson request that has a row ends with the
\* error of the event insert.
C17_EventFailureNotPropagated ==
  \A w \in Workers :
    ( /\ pc[w] = "done"
      /\ req[w].handler \in LessonHandlers
      /\ RowsFor(req[w].user, req[w].slug, req[w].lesson_id) # {} )
    => resp[w] # ServerError("OperationalError")

\* C18: the insert that loses the race of two first visits is a no-op: no
\* lesson request ends with the constraint violation of the progress table.
C18_DuplicateInsertIsNoOp ==
  \A w \in Workers :
    (pc[w] = "done" /\ req[w].handler \in LessonHandlers)
    => resp[w] # ServerError("IntegrityError")

\* C19: a mark_complete step on a row that is completed leaves the row,
\* its status and its score, as it is.
C19_MarkCompleteIdempotent ==
  [][ \A w \in Workers :
        (pc[w] = "ld_action" /\ pc'[w] = "ld_log_completed")
        => \A r \in progress :
             (r.id = prog[w].id /\ r.status = "completed") => r \in progress' ]_vars

\* C19 witness: mark_complete was applied twice to one row (the later of
\* the two found the row completed).
C19_MarkedTwiceWitness ==
  \E k \in Keys :
    /\ Cardinality(EventsOf("lesson_completed", k)) >= 2
    /\ \E r \in progress : KeyOf(r) = k /\ r.status = "completed"

\* C20: a report appends one artifact_reported event carrying the artifact
\* id of the form and changes no row of artifact, peer_review or progress;
\* what the queue may hand to the reporter is the same after as before.
C20_ReportIsAuditOnly ==
  [][ \A w \in Workers : \A u \in Users :
        ( /\ pc[w] = "idle"
          /\ pc'[w] = "done"
          /\ req'[w].handler = "peer_review_queue"
          /\ req'[w].form.action = "report"
          /\ req'[w].user = u )
        => /\ artifacts' = artifacts
           /\ reviews' = reviews
           /\ progress' = progress
           /\ Len(events') = Len(events) + 1
           /\ events'[Len(events')].type = "artifact_reported"
           /\ events'[Len(events')].user_id = u
           /\ events'[Len(events')].meta.artifact_id = req'[w].form.artifact_id
           /\ nextArtifactFor(u)' = nextArtifactFor(u) ]_vars

\* C20 witness: an artifact was reported and the queue may still hand it
\* to the reporter.
C20_ReportedStillEligibleWitness ==
  \E i \in 1..Len(events) :
    /\ events[i].type = "artifact_reported"
    /\ \E a \in nextArtifactFor(events[i].user_id) :
         FormInt(events[i].meta.artifact_id, 0).val = a.id

\* C21: the event log is append-only: every step keeps the events stored so
\* far, in place and unmodified, also a step in which an event insert
\* fails and the session is rolled back.
C21_EventLogAppendOnly ==
  [][ /\ Len(events') >= Len(events)
      /\ \A i \in 1..Len(events) : events'[i] = events[i] ]_vars

\* C21 witness: the log holds events, and an event insert of
\* app_perspectives_fix.py has failed and been rolled back.
C21_FailedWriteWitness ==
  /\ Len(events) >= 1
  /\ binds_dict = "no"
  /\ \E w \in Workers : pc[w] = "done" /\ req[w].handler = "lesson"

\* a document that is a JSON object with a numeric order
WellFormed(doc) == doc.kind = "object" /\ IsNumber(doc.order)

\* C22: whatever documents of the directory are malformed, the load of the
\* catalog does not fail and returns every well-formed perspective.
C22_LoadAllIsolatesFailures ==
  \A w \in Workers :
    (pc[w] = "done" /\ req[w].handler \in Dashboards /\ "dir" \in DOMAIN req[w])
    => /\ resp[w].kind = "render"
       /\ \A n \in FileNames :
            WellFormed(req[w].dir[n])
            => \E x \in resp[w].perspectives : x.file = n /\ x.slug = req[w].dir[n].slug

DetailHandlers == {"perspective_detail", "perspectives_bp.perspective_detail"}

\* the files of the directory whose document declares the slug
Declaring(d, slug) == { n \in FileNames : d[n].kind = "object" /\ d[n].slug = slug }

\* C25: over a directory of well-formed documents, the lookup of a slug
\* returns the document that declares it, whatever the files are named,
\* and "not found" only when no document declares it.
C25_LoadBySlugFindsDeclared ==
  \A w \in Workers :
    ( /\ pc[w] = "done"
      /\ req[w].handler \in DetailHandlers
      /\ \A n \in FilesOf(req[w].dir) : WellFormed(req[w].dir[n]) )
    => IF Declaring(req[w].dir, req[w].slug) = {}
       THEN resp[w].kind = "redirect"
       ELSE /\ resp[w].kind = "render"
            /\ \A x \in resp[w].perspectives :
                 x.slug = req[w].slug /\ x.file \in Declaring(req[w].dir, req[w].slug)

\* the artifacts of other users that u has no review of
Unreviewed(u) ==
  { a \in artifacts :
      /\ a.user_id # u
      /\ ~ \E r \in reviews : r.reviewer_id = u /\ r.artifact_id = a.id }

QueueGet(w, u) ==
  /\ pc[w] = "idle"
  /\ pc'[w] = "done"
  /\ req'[w].handler = "peer_review_queue"
  /\ req'[w].method = "GET"
  /\ req'[w].user = u

\* C23: the queue runs dry.  A review stored for an artifact the queue may
\* hand to the reviewer leaves one artifact less to hand out (and adds no
\* artifact), and once the reviewer has a review of every artifact of the
\* other users the queue page is rendered with no artifact: a page, not an
\* error.
C23_QueueExhausts ==
  [][ \A w \in Workers : \A u \in Users :
        /\ QueueGet(w, u)
           => /\ resp'[w].kind = "render"
              /\ (resp'[w].artifact = None) <=> (Unreviewed(u) = {})
        /\ ( /\ pc[w] = "idle"
             /\ pc'[w] = "pr_log"
             /\ req'[w].user = u
             /\ \E a \in Unreviewed(u) : a.id = FormInt(req'[w].form.artifact_id, 0).val )
           => /\ artifacts' = artifacts
              /\ Cardinality(Unreviewed(u)') = Cardinality(Unreviewed(u)) - 1 ]_vars

\* C23 witness: a reviewer with a review of every artifact of the other
\* users, of which there is one, is shown the queue with no artifact.
C23_ExhaustedWitness ==
  \E w \in Workers :
    /\ pc[w] = "done"
    /\ req[w].handler = "peer_review_queue"
    /\ req[w].method = "GET"
    /\ resp[w].artifact = None
    /\ \E a \in artifacts : a.user_id # req[w].user
    /\ Unreviewed(req[w].user) = {}

\* C24: the artifact the queue hands to a reviewer is the one created
\* earliest (the smallest id) among those of other users the reviewer has
\* no review of.
C24_EarliestCreatedFirst ==
  [][ \A w \in Workers : \A u \in Users :
        (QueueGet(w, u) /\ resp'[w].artifact # None)
        => \A a \in Unreviewed(u) : resp'[w].artifact.id <= a.id ]_vars

\* C26: every stored row has status started or completed, never
\* not_started, and score 0 or 100.
C26_StatusAndScoreDomains ==
  \A r \in progress : r.status \in {"started", "completed"} /\ r.score \in {0, 100}

\* C26 witness: rows were created, and one of them has been completed and
\* scored.
C26_ScoredAndCompletedWitness ==
  /\ \E r \in progress : r.status = "completed" /\ r.score = 100
  /\ \E r \in progress : r.status = "started" /\ r.score = 0

\* C27: every quiz_attempted, minigame_played or lesson_completed event is
\* preceded in the log by a lesson_started event of the same user and
\* lesson, whatever the order of the requests to the two lesson handlers.
C27_StartedBeforeActivity ==
  \A i \in 1..Len(events) :
    events[i].type \in {"quiz_attempted", "minigame_played", "lesson_completed"}
      => \E j \in 1..(i - 1) :
           /\ events[j].type = "lesson_started"
           /\ events[j].user_id = events[i].user_id
           /\ events[j].perspective_slug = events[i].perspective_slug
           /\ events[j].lesson_id = events[i].lesson_id

\* the step in which worker w answers a mini-game submission
MinigameStep(w) ==
  /\ pc[w] \in {"ld_action", "ls_action"}
  /\ pc'[w] = "done"
  /\ req'[w].form.action = "submit_minigame"

ContentLessons ==
  UNION { { << Content[i].slug, Content[i].lessons[j].id >> :
              j \in 1..Len(Content[i].lessons) } : i \in 1..Len(Content) }

\* the step in which worker w takes up a lesson request for a lesson the
\* content does not have
UnknownLessonStep(w) ==
  /\ pc[w] = "idle"
  /\ pc'[w] # "idle"
  /\ req'[w].handler \in LessonHandlers
  /\ << req'[w].slug, req'[w].lesson_id >> \notin ContentLessons

\* C29: a lesson request for an unknown perspective slug or an unknown
\* lesson id is answered at once by a redirect with a not-found message and
\* writes no progress row and no event; and every stored row refers to a
\* lesson of the content.
C29_UnknownLessonNotFound ==
  [][ /\ \A w \in Workers :
           UnknownLessonStep(w) =>
             /\ pc'[w] = "done"
             /\ resp'[w].kind = "redirect"
             /\ resp'[w].flash \in {"Perspective not found", "Perspective not found.",
                                    "Lesson not found", "Lesson not found."}
             /\ progress' = progress
             /\ events' = events
      /\ \A r \in progress' : << r.perspective_slug, r.lesson_id >> \in ContentLessons ]_vars

\* C29 witness: an unknown lesson id and an unknown perspective slug have
\* both been answered not-found.
C29_NotFoundWitness ==
  \E w1, w2 \in Workers :
    /\ pc[w1] = "done" /\ req[w1].handler \in LessonHandlers
    /\ req[w1].slug = "p" /\ req[w1].lesson_id = "zz"
    /\ resp[w1].kind = "redirect" /\ resp[w1].to = "perspective_detail"
    /\ pc[w2] = "done" /\ req[w2].handler \in LessonHandlers
    /\ req[w2].slug = "zz"
    /\ resp[w2].kind = "redirect" /\ resp[w2].to = "dashboard"
    /\ progress = {} /\ events = <<>>

====
